---- MODULE Spec2Model ----
(***************************************************************************)
(* The document repository of the backend: the `documents` and `versions`  *)
(* tables (db/models.py), the per-request unit of work (db/connection.py), *)
(* the create / get / list / update / delete handlers                      *)
(* (routers/documents.py), the export handlers (routers/export.py with     *)
(* export/), the AI handlers (routers/ai.py with ai/groq_client.py and     *)
(* services/brave_search.py), the reset-password handler (routers/auth.py) *)
(* and the error wrapper (services/errors.py).                             *)
(*                                                                         *)
(* A request is a process.  The database runs at PostgreSQL's default      *)
(* isolation level (the engine of db/connection.py sets no other): a       *)
(* SELECT sees the rows committed so far, and an UPDATE or DELETE takes    *)
(* the row's lock until its transaction ends, so no other transaction can  *)
(* see or change the row between a handler's flush and the commit of       *)
(* get_session.  A handler is therefore cut at its SELECT: the read step   *)
(* (SELECT, access check, the synchronous code up to the flush) and the    *)
(* write step (flush, refresh, response, commit).  Time is the number of   *)
(* readings of datetime.utcnow() so far: two readings never tie.           *)
(***************************************************************************)
EXTENDS Integers, Sequences, FiniteSets, TLC

VARIABLES
    documents,  \* the committed rows of table documents, by id
    versions,   \* the committed rows of table versions
    issued,     \* how many ids uuid4() has handed out
    req,        \* the requests: where each is, what it loaded, its response
    updates,    \* history: per document, the updates that ended with 200
    clock       \* the last reading of datetime.utcnow()

vars == <<documents, versions, issued, req, updates, clock>>

\* ------------------------------------------------------------------ bounds

\* Number of ids uuid4() hands out (ids are never reused).
MaxDocs == 1
\* Updates are started only while current_version is below this.
MaxVersion == 3
\* Number of documents in the stores that ListSpec starts from.
MaxListed == 3

\* ------------------------------------------------------------ value spaces

\* An optional value: <<>> when absent, <<v>> when present.
Nothing == <<>>
Some(v) == <<v>>
IsSome(o) == o # <<>>
Get(o) == o[1]
Opt(S) == {Nothing} \cup {Some(v) : v \in S}

\* Authenticated users (the `id` verify_token returns, a UUID string).
Users == {"ua", "ub"}
\* user_id of a document that has no owner, and of a requester that has none.
None == "None"
\* get_current_user's result: None, a user dict with a UUID id, or a user
\* dict whose id is no UUID.
NoUser == "NoUser"
BadIdUser == "BadIdUser"

\* Bearer tokens: the empty one, one the auth service refuses (invalid or
\* expired), and the valid ones, named by the user they belong to.
Tokens == {"", "expired", BadIdUser} \cup Users
\* The Authorization header of a request: absent, or a scheme and a token.
Headers == Opt([scheme : {"Basic", "Bearer"}, token : Tokens])

\* verify_token: the user the auth service names for the token, or None
\* (also when the call raises).
verify_token(token) ==
    IF token \in Users \cup {BadIdUser} THEN token ELSE NoUser

\* get_current_user: None unless the header is "Bearer <token>" with a
\* token that verify_token accepts.
get_current_user(authorization) ==
    IF ~IsSome(authorization) \/ Get(authorization).scheme # "Bearer" THEN NoUser
    ELSE IF Get(authorization).token = "" THEN NoUser
    ELSE verify_token(Get(authorization).token)

\* The requesters of the handlers: what get_current_user gives them.
Requesters == {get_current_user(h) : h \in Headers}

DocIds == 1..MaxDocs
\* A path parameter that is no UUID.
BadDocId == 0

Reqs == {1, 2}

Types == {"word", "excel"}

\* Titles are character sequences; " " is whitespace and "U+4E2D" is a
\* character outside latin-1.
Latin1 == {" ", "a"}
TitlesIn == {<<"a">>, <<" ", "U+4E2D">>}

\* A sheet: its columns, each named by its id, and its rows; a row's cells
\* are a mapping, the set of its <<key, value>> entries.
Sheet(cols) == [columns |-> cols, rows |-> <<>>]
SectionLists == {<<>>, <<"s1">>}
SheetLists == {<<>>, <<Sheet(<<>>)>>, <<Sheet(<<"c1">>)>>}

\* Rows of the sheets in the stores that SheetSpec starts from: at most
\* MaxRows rows whose cells have keys among c1, c2 and x.
MaxRows == 1
CellMaps == SUBSET {<<"c1", "v1">>, <<"c2", "v2">>, <<"x", "v3">>}
RowLists ==
    UNION {[1..n -> {[cells |-> c] : c \in CellMaps}] : n \in 0..MaxRows}
ColumnLists == {<<>>, <<"c1">>, <<"c1", "c2">>, <<"c1", "c1">>}

\* str.strip(): drop leading and trailing whitespace.
RECURSIVE Strip(_)
Strip(t) ==
    IF t = <<>> THEN t
    ELSE IF Head(t) = " " THEN Strip(Tail(t))
    ELSE IF t[Len(t)] = " " THEN Strip(SubSeq(t, 1, Len(t) - 1))
    ELSE t

\* DocumentCreate bodies that pass request validation.
CreatePayloads ==
    [title : TitlesIn, type : Types, sections : SectionLists, sheets : SheetLists]

\* DocumentUpdate bodies: every field is optional.  The bodies drawn supply
\* at most one field.
UpdatePayloads ==
    {u \in [title : Opt(TitlesIn), sections : Opt(SectionLists),
            sheets : Opt(SheetLists)] :
        Cardinality({f \in {"title", "sections", "sheets"} : IsSome(u[f])}) <= 1}

\* HTTP status of a response.
StatusOK == 200
ValidationError == 400
AuthError == 401
ForbiddenError == 403
NotFoundError == 404
ConflictError == 409
InternalError == 500
ServiceError == 503

\* An exception: its class, str() of it, and the code and status_code of
\* an AppError.  For an HTTPException `message` is its detail.
AppErrorClasses ==
    {"AppError", "NotFoundError", "ValidationError", "AuthError",
     "ForbiddenError", "ConflictError", "ServiceError"}
\* AppError.__init__ as the class cls calls it.
AppError(cls, message, code, status_code) ==
    [class |-> cls, message |-> message, code |-> code,
     status_code |-> status_code]
\* The constructors of the subclasses of AppError.
new_NotFoundError(resource) ==
    AppError("NotFoundError", resource \o " not found", "not_found", NotFoundError)
new_ValidationError(message) ==
    AppError("ValidationError", message, "validation_error", ValidationError)
new_AuthError(message) ==
    AppError("AuthError", message, "auth_error", AuthError)
new_ForbiddenError(message) ==
    AppError("ForbiddenError", message, "forbidden", ForbiddenError)
new_ConflictError(message) ==
    AppError("ConflictError", message, "conflict", ConflictError)
new_ServiceError(message) ==
    AppError("ServiceError", message, "service_error", ServiceError)
HTTPException(status_code, detail) ==
    [class |-> "HTTPException", message |-> detail, code |-> "",
     status_code |-> status_code]
\* An exception of another class, such as ValueError or StaleDataError.
OtherException(cls, message) ==
    [class |-> cls, message |-> message, code |-> "", status_code |-> 0]

\* The exceptions that the function of an endpoint may end with.
Messages == {"Invalid ID format", "connection refused"}
Exceptions ==
    {new_NotFoundError(m) : m \in {"Document"}}
    \cup {new_ValidationError(m) : m \in Messages}
    \cup {new_AuthError(m) : m \in Messages}
    \cup {new_ForbiddenError(m) : m \in Messages}
    \cup {new_ConflictError(m) : m \in Messages}
    \cup {new_ServiceError(m) : m \in Messages}
    \cup {AppError("AppError", m, "error", ValidationError) : m \in Messages}
    \cup {HTTPException(st, m) : st \in {NotFoundError, InternalError}, m \in Messages}
    \cup {OtherException(c, m) : c \in {"ValueError", "StaleDataError"}, m \in Messages}

\* parse_intent refuses a prompt shorter than this once stripped.
MinPromptLen == 10
\* IntentRequest.prompt bodies that pass request validation (10 to 2000
\* characters): one of 10 characters, one that strips to 9, and three of 10
\* characters that read "a DATA set", "five sheet" and "a listener".
PromptsIn ==
    {[i \in 1..MinPromptLen |-> "a"],
     [i \in 1..MinPromptLen |-> IF i = 1 THEN " " ELSE "a"],
     <<"a", " ", "D", "A", "T", "A", " ", "s", "e", "t">>,
     <<"f", "i", "v", "e", " ", "s", "h", "e", "e", "t">>,
     <<"a", " ", "l", "i", "s", "t", "e", "n", "e", "r">>}

\* The words whose presence in a prompt makes it a request for data.
DATA_KEYWORDS ==
    {<<"e", "x", "c", "e", "l">>,
     <<"s", "p", "r", "e", "a", "d", "s", "h", "e", "e", "t">>,
     <<"l", "i", "s", "t">>,
     <<"t", "a", "b", "l", "e">>,
     <<"d", "a", "t", "a">>}

\* What the GET of the web search gives: an exception of the transport (no
\* connection, or no answer within the timeout), a response whose status is
\* not 2xx, or a 2xx response with that many results.
MaxFound == 12
HttpOutcomes ==
    {[kind |-> "error", found |-> 0], [kind |-> "status", found |-> 0],
     [kind |-> "ok", found |-> 0], [kind |-> "ok", found |-> MaxFound]}

\* A JSON object, as far as parse_intent looks at it: the fields
\* document_type, topic and sections, each absent or present; sections is
\* a list of sections or a value of another type.
NoFields == [document_type |-> Nothing, topic |-> Nothing, sections |-> Nothing]
JsonObjects ==
    [document_type : Opt({"excel"}), topic : Opt({<<"t">>}),
     sections : Opt({[islist |-> TRUE, items |-> <<"s1">>],
                     [islist |-> FALSE, items |-> <<>>]})]
\* A JSON value: an object, or a list.
JsonValues ==
    {[kind |-> "dict", fields |-> o] : o \in JsonObjects}
    \cup {[kind |-> "list", fields |-> NoFields]}
\* A text: one that json.loads parses to a value, or one it rejects.
Texts ==
    {[valid |-> TRUE, value |-> v] : v \in JsonValues}
    \cup {[valid |-> FALSE, value |-> [kind |-> "dict", fields |-> NoFields]]}
\* What the chat completion gives: an exception, or message.content, a
\* text or nothing (None or "").
LLMOutcomes ==
    {[raised |-> TRUE, content |-> Nothing]}
    \cup {[raised |-> FALSE, content |-> c] : c \in Opt(Texts)}

\* What the chat completion gives to a rewrite: an exception, or
\* message.content, nothing (None or ""), blank text or text.
RewriteOutcomes ==
    {[raised |-> TRUE, content |-> Nothing]}
    \cup {[raised |-> FALSE, content |-> c] : c \in Opt({<<" ">>, <<"b">>})}
\* RewriteRequest.search_query: None, or a query.
SearchQueries == Opt({<<"q">>})

\* ResetPasswordRequest.email bodies that pass request validation: the
\* address of an account and an address that has none.
Accounts == {"ua@example.com"}
Emails == Accounts \cup {"nobody@example.com"}

\* ---------------------------------------------------------------- helpers

\* get_user_id: the requester's UUID, or None.
get_user_id(user) ==
    IF user = NoUser THEN None
    ELSE IF user \in Users THEN user
    ELSE None

\* get_document_with_access without the comparison of the owner with the
\* requester.
MutAccessNoOwnerCheck(doc_id, user, require_owner) ==
    LET user_id == get_user_id(user) IN
    IF doc_id = BadDocId THEN ValidationError
    ELSE IF doc_id \notin DOMAIN documents THEN NotFoundError
    ELSE IF documents[doc_id].user_id # None
         THEN IF user_id = None THEN ForbiddenError ELSE StatusOK
    ELSE IF require_owner /\ user_id = None THEN ForbiddenError
    ELSE StatusOK

\* get_document_with_access asking for a signed-in requester on every path.
MutAccessSignInAlways(doc_id, user, require_owner) ==
    LET user_id == get_user_id(user) IN
    IF doc_id = BadDocId THEN ValidationError
    ELSE IF doc_id \notin DOMAIN documents THEN NotFoundError
    ELSE IF documents[doc_id].user_id # None
         THEN IF user_id = None THEN ForbiddenError
              ELSE IF documents[doc_id].user_id # user_id THEN ForbiddenError
              ELSE StatusOK
    ELSE IF user_id = None THEN ForbiddenError
    ELSE StatusOK

\* get_document_with_access refusing a requester without user id before it
\* looks the document up.
MutAccessSignInFirst(doc_id, user, require_owner) ==
    LET user_id == get_user_id(user) IN
    IF doc_id = BadDocId THEN ValidationError
    ELSE IF require_owner /\ user_id = None THEN ForbiddenError
    ELSE IF doc_id \notin DOMAIN documents THEN NotFoundError
    ELSE IF documents[doc_id].user_id # None
         THEN IF user_id = None THEN ForbiddenError
              ELSE IF documents[doc_id].user_id # user_id THEN ForbiddenError
              ELSE StatusOK
    ELSE StatusOK

\* The outcome of get_document_with_access: 200, or the error it raises.
get_document_with_access(doc_id, user, require_owner) ==
    LET user_id == get_user_id(user) IN
    IF doc_id = BadDocId THEN ValidationError
    ELSE IF doc_id \notin DOMAIN documents THEN NotFoundError
    ELSE IF documents[doc_id].user_id # None
         THEN IF user_id = None THEN ForbiddenError
              ELSE IF documents[doc_id].user_id # user_id THEN ForbiddenError
              ELSE StatusOK
    ELSE IF require_owner /\ user_id = None THEN ForbiddenError
    ELSE StatusOK

\* DocumentResponse of a row.
to_response(id, doc) ==
    [id |-> id, type |-> doc.type, title |-> doc.title,
     version |-> doc.current_version,
     created_at |-> doc.created_at, updated_at |-> doc.updated_at,
     sections |-> doc.content.sections, sheets |-> doc.content.sheets,
     sources |-> doc.content.sources]

\* list_documents without its WHERE clause.
MutListedAll(user_id) ==
    DOMAIN documents

\* The rows that list_documents' SELECT ... WHERE user_id = :user_id finds.
Listed(user_id) ==
    {d \in DOMAIN documents : documents[d].user_id = user_id}

\* The orders in which ORDER BY updated_at DESC may give the rows `ids`
\* (rows with equal updated_at come in any order).
OrderedByUpdatedDesc(ids) ==
    {s \in [1..Cardinality(ids) -> ids] :
        /\ \A i, j \in DOMAIN s : i # j => s[i] # s[j]
        /\ \A i, j \in DOMAIN s :
              i < j => documents[s[i]].updated_at >= documents[s[j]].updated_at}

\* get_document of the export router: 200, or the HTTPException it raises.
\* It takes no requester.
export_get_document(doc_id) ==
    IF doc_id = BadDocId THEN ValidationError
    ELSE IF doc_id \notin DOMAIN documents THEN NotFoundError
    ELSE StatusOK

\* doc_to_dict: what the exporters are given.
doc_to_dict(id, doc) ==
    [id |-> id, type |-> doc.type, title |-> doc.title,
     sections |-> doc.content.sections, sheets |-> doc.content.sheets]

\* dict.get(key) on the cells of a row.
cells_get(cells, key) ==
    IF \E e \in cells : e[1] = key
    THEN (CHOOSE e \in cells : e[1] = key)[2]
    ELSE None

\* ExcelExporter._add_sheet: the worksheet it builds.  col_map takes each
\* column id to the index of the last column that has it.  Row 1 gets a
\* header cell at every column index; every data row gets one cell per
\* entry of col_map, at that entry's index, with the value the row's cells
\* have under the id, or None.  A cell is <<value>> when written and <<>>
\* when not.  With rows and no column, get_column_letter(0) raises.
add_sheet(sheet_data) ==
    LET columns == sheet_data.columns
        rows == sheet_data.rows
        ids == {columns[i] : i \in DOMAIN columns}
        col_map == [id \in ids |->
                       CHOOSE i \in DOMAIN columns :
                           /\ columns[i] = id
                           /\ \A j \in DOMAIN columns : columns[j] = id => j <= i] IN
    [raised |-> rows # <<>> /\ columns = <<>>,
     header |-> [i \in DOMAIN columns |-> Some(columns[i])],
     rows |-> [k \in DOMAIN rows |->
                 [i \in DOMAIN columns |->
                     IF \E id \in ids : col_map[id] = i
                     THEN Some(cells_get(rows[k].cells, columns[i]))
                     ELSE Nothing]]]

\* The exporters: TRUE when the exporter returns the file's bytes, FALSE
\* when it raises.
\* WordExporter.export raises on a document that is not a word document.
export_word_document(doc_model) ==
    doc_model.type = "word"

\* ExcelExporter.export raises on a document that is not an excel document,
\* on one without sheets, and when _add_sheet raises on a sheet.
export_excel_document(doc_model) ==
    /\ doc_model.type = "excel"
    /\ doc_model.sheets # <<>>
    /\ \A i \in DOMAIN doc_model.sheets : ~add_sheet(doc_model.sheets[i]).raised

\* PDFExporter.export: the office file of the document's kind, handed to
\* _convert (the mock PDF, or a LibreOffice run that ends well).
export_pdf_document(doc_model) ==
    IF doc_model.type = "word" THEN export_word_document(doc_model)
    ELSE IF doc_model.type = "excel" THEN export_excel_document(doc_model)
    ELSE FALSE

\* Response(..., headers={"Content-Disposition": 'attachment;
\* filename="<title>.<ext>"'}) encodes the header values in latin-1: TRUE
\* when the response is built, FALSE when the encoding raises.
ResponseBuilt(title) ==
    \A i \in 1..Len(title) : title[i] \in Latin1

\* The file that the exporter of the document's kind builds of it: the
\* sections of a word document, the worksheets of an excel document.
ExportedFile(doc_model) ==
    [id |-> doc_model.id, type |-> doc_model.type, title |-> doc_model.title,
     sections |-> IF doc_model.type = "word" THEN doc_model.sections ELSE <<>>,
     sheets |-> IF doc_model.type = "excel" THEN doc_model.sheets ELSE <<>>,
     workbook |-> IF doc_model.type = "excel"
                  THEN [i \in DOMAIN doc_model.sheets |-> add_sheet(doc_model.sheets[i])]
                  ELSE <<>>]

\* The export handlers without their check of the document's kind.
MutKindAcceptedAny(fmt, type) ==
    TRUE

\* The check of the document's kind: export_word and export_excel want
\* their own kind, export_pdf has no check.
KindAccepted(fmt, type) ==
    fmt = "pdf" \/ fmt = type

\* The response of GET /api/documents/{doc_id}/export/<fmt>: get_document,
\* the check of the kind, then the exporter and the Response inside the
\* handler's try (any exception there becomes a 500).
ExportResponse(fmt, doc_id) ==
    LET st == export_get_document(doc_id) IN
    IF st # StatusOK THEN [status |-> st, body |-> Nothing]
    ELSE LET document == documents[doc_id]
             doc_dict == doc_to_dict(doc_id, document)
             exported == IF fmt = "word" THEN export_word_document(doc_dict)
                         ELSE IF fmt = "excel" THEN export_excel_document(doc_dict)
                         ELSE export_pdf_document(doc_dict) IN
         IF ~KindAccepted(fmt, document.type)
         THEN [status |-> ValidationError, body |-> Nothing]
         ELSE IF exported /\ ResponseBuilt(document.title)
         THEN [status |-> StatusOK, body |-> Some(ExportedFile(doc_dict))]
         ELSE [status |-> InternalError, body |-> Nothing]

\* AIClient._generate: message.content or "{}".
generate(content) ==
    IF IsSome(content) THEN Get(content)
    ELSE [valid |-> TRUE, value |-> [kind |-> "dict", fields |-> NoFields]]

\* AIClient._parse_json: json.loads of the text, {} when it raises.
parse_json(response) ==
    IF response.valid THEN response.value
    ELSE [kind |-> "dict", fields |-> NoFields]

\* prompt[:n]
Prefix(t, n) == SubSeq(t, 1, IF Len(t) < n THEN Len(t) ELSE n)

\* str.lower(), on the characters of the prompts drawn.
Lower(t) ==
    [i \in 1..Len(t) |->
        CASE t[i] = "A" -> "a" [] t[i] = "D" -> "d" [] t[i] = "T" -> "t"
             [] OTHER -> t[i]]

\* kw in t, on strings.
Contains(t, kw) ==
    \E i \in 1..(Len(t) - Len(kw) + 1) : SubSeq(t, i, i + Len(kw) - 1) = kw

\* The number of search results parse_intent_async asks for.
num_results(prompt) ==
    IF \E kw \in DATA_KEYWORDS : Contains(Lower(prompt), kw) THEN 10 ELSE 5

\* What a request has sent to its collaborators: the count of each web
\* search and the prompt of each chat completion, in order.
NoneSent == [searches |-> <<>>, completions |-> <<>>]

\* BraveSearchClient.search without its except clause: the exception of
\* the transport or of raise_for_status leaves it.
MutSearchRaises(http, count) ==
    [raised |-> http.kind # "ok",
     results |-> IF http.kind # "ok" THEN 0
                 ELSE IF http.found < count THEN http.found ELSE count]

\* BraveSearchClient.search: the number of results it returns, at most count
\* of those found; every exception within it gives the empty list.
search(http, count) ==
    [raised |-> FALSE,
     results |-> IF http.kind # "ok" THEN 0
                 ELSE IF http.found < count THEN http.found ELSE count]

\* BraveSearchClient.search_for_context: the context lists the results; it
\* is the empty string when there are none.
search_for_context(http, count) ==
    LET found == search(http, count) IN
    [raised |-> found.raised, context |-> found.results]

\* AIClient.parse_intent_async with a second attempt at a chat completion
\* that has failed.
MutParseIntentRetries(prompt, http, llm) ==
    LET count == num_results(prompt)
        searched == search_for_context(http, count)
        full_prompt == IF searched.context > 0
                       THEN [instruction |-> "search_results",
                             context |-> searched.context]
                       ELSE [instruction |-> "no_search_results", context |-> 0]
        empty == [kind |-> "dict", fields |-> NoFields] IN
    IF searched.raised
    THEN [raised |-> TRUE, value |-> empty,
          sent |-> [searches |-> <<count>>, completions |-> <<>>]]
    ELSE [raised |-> llm.raised,
          value |-> IF llm.raised THEN empty ELSE parse_json(generate(llm.content)),
          sent |-> [searches |-> <<count>>,
                    completions |-> IF llm.raised THEN <<full_prompt, full_prompt>>
                                    ELSE <<full_prompt>>]]

\* AIClient.parse_intent_async: one search, then one chat completion whose
\* prompt carries the search context or, without context, the line saying
\* that no search results are available.  `raised` when it ends with an
\* exception, `value` what it returns otherwise.
parse_intent_async(prompt, http, llm) ==
    LET count == num_results(prompt)
        searched == search_for_context(http, count)
        full_prompt == IF searched.context > 0
                       THEN [instruction |-> "search_results",
                             context |-> searched.context]
                       ELSE [instruction |-> "no_search_results", context |-> 0]
        empty == [kind |-> "dict", fields |-> NoFields] IN
    IF searched.raised
    THEN [raised |-> TRUE, value |-> empty,
          sent |-> [searches |-> <<count>>, completions |-> <<>>]]
    ELSE [raised |-> llm.raised,
          value |-> IF llm.raised THEN empty ELSE parse_json(generate(llm.content)),
          sent |-> [searches |-> <<count>>, completions |-> <<full_prompt>>]]

\* The response of POST /api/ai/parse-intent to a prompt, given what the
\* web search and the chat completion give.  Inside the handler's try every
\* exception becomes a ServiceError: the one of the completion, the
\* AttributeError of result.get on a value that is no dict, and the
\* validation error of IntentResponse on sections that are no list.
IntentOutcome(prompt_in, http, llm) ==
    LET prompt == Strip(prompt_in) IN
    IF Len(prompt) < MinPromptLen
    THEN [status |-> ValidationError, body |-> Nothing, sent |-> NoneSent]
    ELSE LET called == parse_intent_async(prompt, http, llm)
             result == called.value
             f == result.fields IN
         IF called.raised
         THEN [status |-> ServiceError, body |-> Nothing, sent |-> called.sent]
         ELSE IF result.kind # "dict"
         THEN [status |-> ServiceError, body |-> Nothing, sent |-> called.sent]
         ELSE IF IsSome(f.sections) /\ ~Get(f.sections).islist
         THEN [status |-> ServiceError, body |-> Nothing, sent |-> called.sent]
         ELSE [status |-> StatusOK,
               body |-> Some(
                   [document_type |-> IF IsSome(f.document_type)
                                      THEN Get(f.document_type) ELSE "word",
                    topic |-> IF IsSome(f.topic) THEN Get(f.topic)
                              ELSE Prefix(prompt, 50),
                    sections |-> IF IsSome(f.sections) THEN Get(f.sections).items
                                 ELSE <<>>]),
               sent |-> called.sent]

\* AIClient._generate for a rewrite: message.content or "{}".
generate_text(content) ==
    IF IsSome(content) THEN Get(content) ELSE <<"{", "}">>

\* The response of POST /api/ai/rewrite: rewrite_with_search (a search for
\* 3 results, then the completion) when the request has a search query,
\* rewrite_section (the completion alone) when it has none.  Every
\* exception inside the handler's try becomes a ServiceError, and so does a
\* completion that strips to the empty string.
RewriteOutcome(search_query, http, llm) ==
    LET searched == IF IsSome(search_query) THEN search_for_context(http, 3)
                    ELSE [raised |-> FALSE, context |-> 0]
        searches == IF IsSome(search_query) THEN <<3>> ELSE <<>>
        prompt == [instruction |-> "rewrite", context |-> searched.context]
        content == Strip(generate_text(llm.content)) IN
    IF searched.raised
    THEN [status |-> ServiceError, body |-> Nothing,
          sent |-> [searches |-> searches, completions |-> <<>>]]
    ELSE IF llm.raised \/ content = <<>>
    THEN [status |-> ServiceError, body |-> Nothing,
          sent |-> [searches |-> searches, completions |-> <<prompt>>]]
    ELSE [status |-> StatusOK, body |-> Some([content |-> content]),
          sent |-> [searches |-> searches, completions |-> <<prompt>>]]

\* The response of POST /api/ai/suggest-columns: one completion; the
\* columns are the list parsed, or the empty list when what is parsed is
\* no list (the lists are not told apart).
SuggestOutcome(llm) ==
    LET prompt == [instruction |-> "suggest_columns", context |-> 0] IN
    IF llm.raised
    THEN [status |-> ServiceError, body |-> Nothing,
          sent |-> [searches |-> <<>>, completions |-> <<prompt>>]]
    ELSE [status |-> StatusOK,
          body |-> Some([columns |-> [kind |-> "list", fields |-> NoFields]]),
          sent |-> [searches |-> <<>>, completions |-> <<prompt>>]]

\* to_http_exception without its fixed detail: the text of an unexpected
\* exception goes into the response.
MutToHttpExposesText(error) ==
    IF error.class = "HTTPException"
    THEN [status_code |-> error.status_code, detail |-> error.message]
    ELSE IF error.class \in AppErrorClasses
    THEN [status_code |-> error.status_code, detail |-> error.message]
    ELSE [status_code |-> InternalError, detail |-> error.message]

\* to_http_exception: the HTTPException (status_code and detail) that an
\* exception is turned into.
to_http_exception(error) ==
    IF error.class = "HTTPException"
    THEN [status_code |-> error.status_code, detail |-> error.message]
    ELSE IF error.class \in AppErrorClasses
    THEN [status_code |-> error.status_code, detail |-> error.message]
    ELSE [status_code |-> InternalError, detail |-> "An unexpected error occurred"]

\* reset_password without its except clause.
MutResetPasswordRaises(email, provider_raises) ==
    [raised |-> provider_raises, value |-> TRUE]

\* reset_password of the auth service: True when get_client and the
\* provider's reset_password_email return, False when either raises.
reset_password(email, provider_raises) ==
    [raised |-> FALSE, value |-> ~provider_raises]

\* The response of POST /api/auth/reset-password: the handler awaits
\* reset_password, drops its result and returns the fixed body; an
\* exception would leave through handle_errors.
ResetOutcome(email, provider_raises) ==
    LET called == reset_password(email, provider_raises) IN
    IF called.raised
    THEN LET exc == to_http_exception(OtherException("AuthApiError", "connection refused")) IN
         [status |-> exc.status_code, body |-> Some([detail |-> exc.detail])]
    ELSE [status |-> StatusOK,
          body |-> Some([success |-> TRUE,
                         message |-> "If an account exists, a reset link will be sent."])]

\* create_document's checks without the one on word documents.
MutCreateCheckExcelOnly(doc) ==
    IF doc.type = "excel" /\ doc.sheets = <<>> THEN ValidationError
    ELSE StatusOK

\* create_document's checks on the body: 200 or the error raised.
CreateCheck(doc) ==
    IF doc.type = "word" /\ doc.sections = <<>> THEN ValidationError
    ELSE IF doc.type = "excel" /\ doc.sheets = <<>> THEN ValidationError
    ELSE StatusOK

\* The row create_document adds.
\* created_at and updated_at take their default, utcnow() at the INSERT.
NewDocument(doc, user, now) ==
    [user_id |-> get_user_id(user), type |-> doc.type, title |-> Strip(doc.title),
     content |-> [sections |-> doc.sections, sheets |-> doc.sheets, sources |-> <<>>],
     current_version |-> 1, created_at |-> now, updated_at |-> now]

\* update_document without the increment of current_version.
MutAssignedNoBump(row, update, now) ==
    [title |-> IF IsSome(update.title) THEN Strip(Get(update.title)) ELSE row.title,
     content |-> [sections |-> IF IsSome(update.sections) THEN Get(update.sections)
                               ELSE row.content.sections,
                  sheets |-> IF IsSome(update.sheets) THEN Get(update.sheets)
                             ELSE row.content.sheets,
                  sources |-> row.content.sources],
     updated_at |-> now,
     current_version |-> row.current_version]

\* What update_document assigns to the loaded instance before the flush.
\* The content dict is changed in place and the same object is assigned
\* back (documents.py 200-206); `content` records the dict's new value.
Assigned(row, update, now) ==
    [title |-> IF IsSome(update.title) THEN Strip(Get(update.title)) ELSE row.title,
     content |-> [sections |-> IF IsSome(update.sections) THEN Get(update.sections)
                               ELSE row.content.sections,
                  sheets |-> IF IsSome(update.sheets) THEN Get(update.sheets)
                             ELSE row.content.sheets,
                  sources |-> row.content.sources],
     updated_at |-> now,
     current_version |-> row.current_version + 1]

\* Whether the unit of work sees a net change of the content attribute.  It
\* compares, by ==, the attribute's value at the flush with the value the
\* attribute held when it was first set.  update_document sets the attribute
\* to the dict object it loaded, after changing that dict in place: the value
\* held before is this same object, with the new entries already in it (the
\* column is plain JSONB, db/models.py 39, with no mutation tracking).
ContentChanged(loaded, assigned) ==
    LET remembered == assigned.content IN
    assigned.content # remembered

\* The columns of the UPDATE that the flush emits for an instance loaded as
\* `loaded` and left as `assigned`: those with a net change.
DirtyColumns(loaded, assigned) ==
    {c \in {"title", "updated_at", "current_version"} : assigned[c] # loaded[c]}
    \cup (IF ContentChanged(loaded, assigned) THEN {"content"} ELSE {})

\* The UPDATE with created_at set along with updated_at.
MutFlushedSetsCreatedAt(row, loaded, assigned) ==
    LET dirty == DirtyColumns(loaded, assigned) IN
    [row EXCEPT
        !.title = IF "title" \in dirty THEN assigned.title ELSE @,
        !.content = IF "content" \in dirty THEN assigned.content ELSE @,
        !.updated_at = IF "updated_at" \in dirty THEN assigned.updated_at ELSE @,
        !.created_at = IF "updated_at" \in dirty THEN assigned.updated_at ELSE @,
        !.current_version = IF "current_version" \in dirty
                            THEN assigned.current_version ELSE @]

\* The row after the UPDATE: the dirty columns take the instance's values
\* and the other columns keep what is committed.
Flushed(row, loaded, assigned) ==
    LET dirty == DirtyColumns(loaded, assigned) IN
    [row EXCEPT
        !.title = IF "title" \in dirty THEN assigned.title ELSE @,
        !.content = IF "content" \in dirty THEN assigned.content ELSE @,
        !.updated_at = IF "updated_at" \in dirty THEN assigned.updated_at ELSE @,
        !.current_version = IF "current_version" \in dirty
                            THEN assigned.current_version ELSE @]

\* ------------------------------------------------------------------- state

Idle == [pc |-> "idle", op |-> "none", doc |-> BadDocId, user |-> NoUser,
         create |-> Nothing, update |-> Nothing, intent |-> Nothing,
         rewrite |-> Nothing, suggest |-> Nothing, reset |-> Nothing,
         loaded |-> Nothing, assigned |-> Nothing, sent |-> NoneSent,
         raised |-> Nothing, status |-> 0, body |-> Nothing]

Init ==
    /\ documents = <<>>
    /\ versions = {}
    /\ issued = 0
    /\ req = [r \in Reqs |-> Idle]
    /\ updates = [d \in DocIds |-> 0]
    /\ clock = 0

\* A request is taken by the lowest free request slot, once the responses
\* that are ready have been sent.
CanStart(r) ==
    /\ req[r].pc = "idle"
    /\ \A q \in Reqs : req[q].pc # "done" /\ (q < r => req[q].pc # "idle")

\* No request is between its SELECT and its commit.
Quiet == \A q \in Reqs : req[q].pc # "loaded"

\* A finished request: its status and response body.
Finished(rq, status, body) ==
    [rq EXCEPT !.pc = "done", !.status = status, !.body = body]

Started(op, doc_id, user) ==
    [Idle EXCEPT !.pc = "loaded", !.op = op, !.doc = doc_id, !.user = user]

\* ----------------------------------------------------------------- actions

\* POST /api/documents, with the commit of get_session.  The handler has one
\* database step, the INSERT of a row under a fresh id, which commutes with
\* the steps of the requests in flight: it is taken when none is in flight.
create_document(r) ==
    /\ CanStart(r)
    /\ Quiet
    /\ \E user \in Requesters, doc \in CreatePayloads :
        LET rq == [Started("create", BadDocId, user) EXCEPT !.create = Some(doc)] IN
        IF CreateCheck(doc) # StatusOK
        THEN /\ req' = [req EXCEPT ![r] = Finished(rq, CreateCheck(doc), Nothing)]
             /\ UNCHANGED <<documents, issued, clock>>
        ELSE /\ issued < MaxDocs
             /\ LET id == issued + 1
                    row == NewDocument(doc, user, clock + 1) IN
                /\ documents' = (id :> row) @@ documents
                /\ issued' = id
                /\ clock' = clock + 1
                /\ req' = [req EXCEPT ![r] =
                       Finished([rq EXCEPT !.doc = id], StatusOK,
                                Some(to_response(id, row)))]
    /\ UNCHANGED <<versions, updates>>

\* GET /api/documents/{doc_id}.  Its one database step, the SELECT, sees
\* the committed rows, which the requests in flight have not changed: it is
\* taken when none is in flight.
get_document(r) ==
    /\ CanStart(r)
    /\ Quiet
    /\ \E doc_id \in DocIds \cup {BadDocId}, user \in Requesters :
        LET st == get_document_with_access(doc_id, user, FALSE)
            rq == Started("get", doc_id, user) IN
        req' = [req EXCEPT ![r] =
            Finished(rq, st, IF st = StatusOK
                             THEN Some(to_response(doc_id, documents[doc_id]))
                             ELSE Nothing)]
    /\ UNCHANGED <<documents, versions, issued, updates, clock>>

\* PUT /api/documents/{doc_id}, up to the flush: the SELECT, the access
\* check and the assignments to the loaded instance.
update_document(r) ==
    /\ CanStart(r)
    /\ \E doc_id \in DocIds \cup {BadDocId}, user \in Requesters,
          update \in UpdatePayloads :
        LET st == get_document_with_access(doc_id, user, FALSE)
            rq == [Started("update", doc_id, user) EXCEPT !.update = Some(update)] IN
        IF st # StatusOK
        THEN /\ req' = [req EXCEPT ![r] = Finished(Started("update", doc_id, user), st, Nothing)]
             /\ UNCHANGED clock
        ELSE /\ documents[doc_id].current_version < MaxVersion
             /\ req' = [req EXCEPT ![r] =
                    [rq EXCEPT !.loaded = Some(documents[doc_id]),
                               !.assigned = Some(Assigned(documents[doc_id], update,
                                                          clock + 1))]]
             /\ clock' = clock + 1
    /\ UNCHANGED <<documents, versions, issued, updates>>

\* PUT, from the flush on: the UPDATE (which waits for the row's lock, and
\* raises StaleDataError when the row is gone), the refresh, the response
\* and the commit of get_session.
update_flush(r) ==
    /\ req[r].pc = "loaded"
    /\ req[r].op = "update"
    /\ LET d == req[r].doc IN
       IF d \notin DOMAIN documents
       THEN /\ req' = [req EXCEPT ![r] = Finished(@, InternalError, Nothing)]
            /\ UNCHANGED <<documents, updates>>
       ELSE LET row == Flushed(documents[d], Get(req[r].loaded), Get(req[r].assigned)) IN
            /\ documents' = [documents EXCEPT ![d] = row]
            /\ req' = [req EXCEPT ![r] =
                   Finished(@, StatusOK, Some(to_response(d, row)))]
            /\ updates' = [updates EXCEPT ![d] = @ + 1]
    /\ UNCHANGED <<versions, issued, clock>>

\* DELETE with session.delete ahead of the owner's check, under a get_session
\* that commits whatever the handler raises.
MutDeleteCommitsOnError(r) ==
    /\ CanStart(r)
    /\ \E doc_id \in DocIds \cup {BadDocId}, user \in Requesters :
        LET st == get_document_with_access(doc_id, user, TRUE)
            rq == Started("delete", doc_id, user) IN
        IF st # StatusOK
        THEN /\ req' = [req EXCEPT ![r] = Finished(rq, st, Nothing)]
             /\ documents' = [x \in DOMAIN documents \ {doc_id} |-> documents[x]]
        ELSE /\ req' = [req EXCEPT ![r] = [rq EXCEPT !.loaded = Some(documents[doc_id])]]
             /\ UNCHANGED documents
    /\ UNCHANGED <<versions, issued, updates, clock>>

\* DELETE /api/documents/{doc_id}: the handler (the SELECT, the access check
\* with require_owner, session.delete and the response).
delete_document(r) ==
    /\ CanStart(r)
    /\ \E doc_id \in DocIds \cup {BadDocId}, user \in Requesters :
        LET st == get_document_with_access(doc_id, user, TRUE)
            rq == Started("delete", doc_id, user) IN
        IF st # StatusOK
        THEN req' = [req EXCEPT ![r] = Finished(rq, st, Nothing)]
        ELSE req' = [req EXCEPT ![r] = [rq EXCEPT !.loaded = Some(documents[doc_id])]]
    /\ UNCHANGED <<documents, versions, issued, updates, clock>>

\* DELETE, the commit of get_session: the flush emits the DELETE of the row
\* (a row already gone is a warning only) and of its versions (cascade).
delete_commit(r) ==
    /\ req[r].pc = "loaded"
    /\ req[r].op = "delete"
    /\ LET d == req[r].doc IN
        /\ documents' = [x \in DOMAIN documents \ {d} |-> documents[x]]
        /\ versions' = {v \in versions : v.document_id # d}
    /\ req' = [req EXCEPT ![r] = Finished(@, StatusOK, Nothing)]
    /\ UNCHANGED <<issued, updates, clock>>

\* GET /api/documents.  One SELECT and no write.
list_documents(r) ==
    /\ CanStart(r)
    /\ Quiet
    /\ \E user \in Requesters :
        LET user_id == get_user_id(user)
            rq == Started("list", BadDocId, user) IN
        IF user_id = None
        THEN req' = [req EXCEPT ![r] = Finished(rq, StatusOK, Some(<<>>))]
        ELSE \E s \in OrderedByUpdatedDesc(Listed(user_id)) :
                req' = [req EXCEPT ![r] =
                    Finished(rq, StatusOK,
                             Some([i \in DOMAIN s |-> to_response(s[i], documents[s[i]])]))]
    /\ UNCHANGED <<documents, versions, issued, updates, clock>>

\* GET /api/documents/{doc_id}/export/word.  One SELECT and no write: it is
\* taken when no request is in flight, like get_document.  The handlers of
\* the export router take no credentials: `user` is who sends the request,
\* which the handler never learns.
export_word(r) ==
    /\ CanStart(r)
    /\ Quiet
    /\ \E doc_id \in DocIds \cup {BadDocId}, user \in Requesters :
        LET resp == ExportResponse("word", doc_id) IN
        req' = [req EXCEPT ![r] =
            Finished(Started("export_word", doc_id, user), resp.status, resp.body)]
    /\ UNCHANGED <<documents, versions, issued, updates, clock>>

\* GET /api/documents/{doc_id}/export/excel.
export_excel(r) ==
    /\ CanStart(r)
    /\ Quiet
    /\ \E doc_id \in DocIds \cup {BadDocId}, user \in Requesters :
        LET resp == ExportResponse("excel", doc_id) IN
        req' = [req EXCEPT ![r] =
            Finished(Started("export_excel", doc_id, user), resp.status, resp.body)]
    /\ UNCHANGED <<documents, versions, issued, updates, clock>>

\* GET /api/documents/{doc_id}/export/pdf.
export_pdf(r) ==
    /\ CanStart(r)
    /\ Quiet
    /\ \E doc_id \in DocIds \cup {BadDocId}, user \in Requesters :
        LET resp == ExportResponse("pdf", doc_id) IN
        req' = [req EXCEPT ![r] =
            Finished(Started("export_pdf", doc_id, user), resp.status, resp.body)]
    /\ UNCHANGED <<documents, versions, issued, updates, clock>>

\* POST /api/ai/parse-intent.  It reads and writes no row.
parse_intent(r) ==
    /\ CanStart(r)
    /\ Quiet
    /\ \E prompt \in PromptsIn, http \in HttpOutcomes, llm \in LLMOutcomes :
        LET out == IntentOutcome(prompt, http, llm)
            rq == [Started("parse_intent", BadDocId, NoUser) EXCEPT
                      !.intent = Some([prompt |-> prompt, http |-> http, llm |-> llm]),
                      !.sent = out.sent] IN
        req' = [req EXCEPT ![r] = Finished(rq, out.status, out.body)]
    /\ UNCHANGED <<documents, versions, issued, updates, clock>>

\* POST /api/ai/rewrite.  It reads and writes no row.
rewrite_section(r) ==
    /\ CanStart(r)
    /\ Quiet
    /\ \E search_query \in SearchQueries, http \in HttpOutcomes,
          llm \in RewriteOutcomes :
        LET out == RewriteOutcome(search_query, http, llm)
            rq == [Started("rewrite_section", BadDocId, NoUser) EXCEPT
                      !.rewrite = Some([search_query |-> search_query,
                                        http |-> http, llm |-> llm]),
                      !.sent = out.sent] IN
        req' = [req EXCEPT ![r] = Finished(rq, out.status, out.body)]
    /\ UNCHANGED <<documents, versions, issued, updates, clock>>

\* POST /api/ai/suggest-columns.  It reads and writes no row.
suggest_columns(r) ==
    /\ CanStart(r)
    /\ Quiet
    /\ \E llm \in LLMOutcomes :
        LET out == SuggestOutcome(llm)
            rq == [Started("suggest_columns", BadDocId, NoUser) EXCEPT
                      !.suggest = Some([llm |-> llm]),
                      !.sent = out.sent] IN
        req' = [req EXCEPT ![r] = Finished(rq, out.status, out.body)]
    /\ UNCHANGED <<documents, versions, issued, updates, clock>>

\* POST /api/auth/reset-password.  It reads and writes no row.  The
\* provider's call returns or raises, whether or not the address has an
\* account.
reset_password_route(r) ==
    /\ CanStart(r)
    /\ Quiet
    /\ \E email \in Emails, provider_raises \in BOOLEAN :
        LET out == ResetOutcome(email, provider_raises)
            rq == [Started("reset_password", BadDocId, NoUser) EXCEPT
                      !.reset = Some([email |-> email,
                                      provider_raises |-> provider_raises])] IN
        req' = [req EXCEPT ![r] = Finished(rq, out.status, out.body)]
    /\ UNCHANGED <<documents, versions, issued, updates, clock>>

\* The wrapper of handle_errors around an endpoint function that ends with
\* an exception before it has written a row: an HTTPException is raised
\* again as it is and every other exception as to_http_exception gives it;
\* FastAPI answers with the status and the body {"detail": detail}.
handle_errors(r) ==
    /\ CanStart(r)
    /\ Quiet
    /\ \E error \in Exceptions :
        LET exc == IF error.class = "HTTPException"
                   THEN [status_code |-> error.status_code, detail |-> error.message]
                   ELSE to_http_exception(error)
            rq == [Started("handle_errors", BadDocId, NoUser) EXCEPT
                      !.raised = Some(error)] IN
        req' = [req EXCEPT ![r] =
            Finished(rq, exc.status_code, Some([detail |-> exc.detail]))]
    /\ UNCHANGED <<documents, versions, issued, updates, clock>>

\* The response has been sent; the request slot is free again.
Return(r) ==
    /\ req[r].pc = "done"
    /\ req' = [req EXCEPT ![r] = Idle]
    /\ UNCHANGED <<documents, versions, issued, updates, clock>>

Next ==
    \E r \in Reqs :
        \/ create_document(r)
        \/ get_document(r)
        \/ update_document(r)
        \/ update_flush(r)
        \/ delete_document(r)
        \/ delete_commit(r)
        \/ list_documents(r)
        \/ export_word(r)
        \/ export_excel(r)
        \/ export_pdf(r)
        \/ parse_intent(r)
        \/ rewrite_section(r)
        \/ suggest_columns(r)
        \/ reset_password_route(r)
        \/ handle_errors(r)
        \/ Return(r)

Spec == Init /\ [][Next]_vars

\* Requests applied one after another: a request starts only when no other
\* request is between its read and its commit.
NextSeq ==
    \E r \in Reqs :
        \/ create_document(r)
        \/ get_document(r)
        \/ Quiet /\ update_document(r)
        \/ update_flush(r)
        \/ Quiet /\ delete_document(r)
        \/ delete_commit(r)
        \/ list_documents(r)
        \/ export_word(r)
        \/ export_excel(r)
        \/ export_pdf(r)
        \/ parse_intent(r)
        \/ rewrite_section(r)
        \/ suggest_columns(r)
        \/ reset_password_route(r)
        \/ handle_errors(r)
        \/ Return(r)

SeqSpec == Init /\ [][NextSeq]_vars

\* The body of the creates that filled the stores ListSpec starts from.
ListedPayload ==
    [title |-> <<"a">>, type |-> "word", sections |-> <<"s1">>, sheets |-> <<>>]

\* The store after n creates, n up to MaxListed, of a one-section word
\* document, each by any requester: document i was created at time i.
ListInit ==
    /\ \E n \in 0..MaxListed :
          /\ \E owners \in [1..n -> Requesters] :
                documents = [i \in 1..n |-> NewDocument(ListedPayload, owners[i], i)]
          /\ issued = n
          /\ clock = n
    /\ versions = {}
    /\ req = [r \in Reqs |-> Idle]
    /\ updates = [d \in DocIds |-> 0]

\* Requests applied one after another to such a store.
ListSpec == ListInit /\ [][NextSeq]_vars

\* The store after one create of an excel document with one sheet, by any
\* requester: the sheet has columns of ColumnLists and rows of RowLists.
SheetInit ==
    /\ \E user \in Requesters, columns \in ColumnLists, rows \in RowLists :
          documents = (1 :> NewDocument(
              [title |-> <<"a">>, type |-> "excel", sections |-> <<>>,
               sheets |-> <<[columns |-> columns, rows |-> rows]>>], user, 1))
    /\ issued = 1
    /\ clock = 1
    /\ versions = {}
    /\ req = [r \in Reqs |-> Idle]
    /\ updates = [d \in DocIds |-> 0]

\* Requests applied one after another to such a store.
SheetSpec == SheetInit /\ [][NextSeq]_vars

\* ------------------------------------------------------------------ claims

\* A request that is at or past its first step.
Active(r) == req[r].pc # "idle"
\* A request that has ended with status 200.
Succeeded(r, op) == req[r].pc = "done" /\ req[r].op = op /\ req[r].status = StatusOK
\* Step of request r from the free slot into handler op.
Starts(r, op) == req[r].pc = "idle" /\ req'[r].pc # "idle" /\ req'[r].op = op
\* The requester has no user id (no token, or an id that is no UUID).
Anonymous(user) == get_user_id(user) = None
\* The Version rows of document d.
History(d) == {v \in versions : v.document_id = d}
\* Two requests that are both updates of one document, both ended with 200.
\* Both are in their slots at once, so each did its SELECT before the other
\* committed.
BothUpdated(r1, r2) ==
    /\ r1 # r2
    /\ Succeeded(r1, "update")
    /\ Succeeded(r2, "update")
    /\ req[r1].doc = req[r2].doc

\* C1: with requests applied one after another, a stored document's
\* current_version is 1 after create and 1 + N after N successful updates
\* (each update adds exactly 1; nothing lowers it or skips a number).
C1_VersionCountsUpdates ==
    \A d \in DOMAIN documents : documents[d].current_version = 1 + updates[d]

C1_Witness ==
    \E d \in DOMAIN documents :
        updates[d] = 2 /\ documents[d].current_version = 3

\* C2: after a create and N successful updates the document's history holds
\* exactly the N+1 Version rows numbered 1..N+1; row 1 has no parent and row
\* k > 1 has parent k-1, the current_version before that update.
C2_HistoryComplete ==
    \A d \in DOMAIN documents :
        /\ Cardinality(History(d)) = updates[d] + 1
        /\ {v.version : v \in History(d)} = 1..(updates[d] + 1)
        /\ \A v \in History(d) :
            v.parent_version = IF v.version = 1 THEN 0 ELSE v.version - 1

\* C3: every stored word document has at least one section and every
\* stored excel document has a sheet with at least one column.
C3_MinimumContent ==
    \A d \in DOMAIN documents :
        LET c == documents[d].content IN
        /\ documents[d].type = "word" => Len(c.sections) >= 1
        /\ documents[d].type = "excel" =>
              \E i \in 1..Len(c.sheets) : Len(c.sheets[i].columns) >= 1

\* C4: a get, update or delete of a document owned by user A that comes
\* from another authenticated user B ends with 403 at once and changes
\* neither the documents nor the versions.
C4_OtherUserForbidden ==
    [][\A r \in Reqs :
          (/\ \E op \in {"get", "update", "delete"} : Starts(r, op)
           /\ req'[r].doc \in DOMAIN documents
           /\ documents[req'[r].doc].user_id \in Users
           /\ req'[r].user \in Users
           /\ req'[r].user # documents[req'[r].doc].user_id)
          => /\ req'[r].pc = "done"
             /\ req'[r].status = ForbiddenError
             /\ documents' = documents
             /\ versions' = versions]_vars

C4_Witness ==
    \E r \in Reqs :
        /\ req[r].pc = "done"
        /\ req[r].op = "update"
        /\ req[r].status = ForbiddenError
        /\ req[r].doc \in DOMAIN documents
        /\ req[r].user \in Users
        /\ documents[req[r].doc].user_id \in Users \ {req[r].user}

\* C5: a document leaves the store only by a delete request of the
\* authenticated user who owns it.
C5_DeleteOnlyByOwner ==
    [][\A d \in DOMAIN documents :
          d \notin DOMAIN documents' =>
              \E r \in Reqs :
                  /\ req[r].pc = "loaded"
                  /\ req'[r].pc = "done"
                  /\ req[r].op = "delete"
                  /\ req[r].doc = d
                  /\ req[r].user \in Users
                  /\ documents[d].user_id = req[r].user]_vars

\* C6: on a stored document with no owner, an anonymous get ends with 200,
\* an anonymous update passes the access check and ends with 200 when its
\* flush finds the row, and an anonymous delete ends with 403 and leaves the
\* documents as they are.
C6_AnonymousOnOwnerless ==
    [][\A r \in Reqs :
          LET d == req'[r].doc IN
          /\ (/\ Active(r)'
              /\ d \in DOMAIN documents
              /\ documents[d].user_id = None
              /\ Anonymous(req'[r].user))
             => /\ Starts(r, "get") =>
                     req'[r].pc = "done" /\ req'[r].status = StatusOK
                /\ Starts(r, "update") => req'[r].pc = "loaded"
                /\ (req[r].pc = "loaded" /\ req'[r].pc = "done" /\ req[r].op = "update") =>
                     req'[r].status = StatusOK
                /\ Starts(r, "delete") =>
                     /\ req'[r].pc = "done"
                     /\ req'[r].status = ForbiddenError
                     /\ documents' = documents]_vars

C6_Witness ==
    \E r \in Reqs :
        /\ Succeeded(r, "update")
        /\ req[r].user = NoUser
        /\ req[r].doc \in DOMAIN documents
        /\ documents[req[r].doc].user_id = None

\* C7: two concurrent updates of one document that both succeed leave
\* current_version 2 above the version they read, and their responses
\* carry the two version numbers that follow it.
C7_ConcurrentUpdatesSequential ==
    \A r1, r2 \in Reqs :
        BothUpdated(r1, r2) /\ req[r1].doc \in DOMAIN documents =>
            LET v == Get(req[r1].loaded).current_version IN
            /\ {Get(req[r1].body).version, Get(req[r2].body).version} = {v + 1, v + 2}
            /\ documents[req[r1].doc].current_version = v + 2

\* C8: after two concurrent updates of one document that both succeed, one
\* giving only sections and the other only sheets, the stored content is the
\* view of one of them (the later to commit): the field it gave and the
\* other field as it read it.
C8_LastWriterWins ==
    \A r1, r2 \in Reqs :
        (/\ BothUpdated(r1, r2)
         /\ req[r1].doc \in DOMAIN documents
         /\ IsSome(Get(req[r1].update).sections)
         /\ IsSome(Get(req[r2].update).sheets))
        => documents[req[r1].doc].content \in
               {Get(req[r1].assigned).content, Get(req[r2].assigned).content}

\* C9: two updates of one document that read the same current_version (the
\* parent_version of the Version each is to append) do not both succeed
\* with the same version number, and no two Version rows have the same
\* document_id and version.
C9_NoSharedVersionNumber ==
    /\ \A r1, r2 \in Reqs :
          (/\ BothUpdated(r1, r2)
           /\ Get(req[r1].loaded).current_version = Get(req[r2].loaded).current_version)
          => Get(req[r1].body).version # Get(req[r2].body).version
    /\ \A v1, v2 \in versions :
          (v1.document_id = v2.document_id /\ v1.version = v2.version) => v1 = v2

\* C10: a create of a word document with an empty section list ends with
\* 400 and stores no document.
C10_EmptyWordRejected ==
    [][\A r \in Reqs :
          (/\ Starts(r, "create")
           /\ Get(req'[r].create).type = "word"
           /\ Get(req'[r].create).sections = <<>>)
          => /\ req'[r].pc = "done"
             /\ req'[r].status = ValidationError
             /\ req'[r].body = Nothing
             /\ documents' = documents
             /\ issued' = issued]_vars

C10_Witness ==
    \E r \in Reqs :
        /\ req[r].pc = "done"
        /\ req[r].op = "create"
        /\ req[r].status = ValidationError
        /\ Get(req[r].create).type = "word"
        /\ Get(req[r].create).sections = <<>>
        /\ documents = <<>>

\* The document was stored once and has been deleted.
Deleted(d) == d \in 1..issued /\ d \notin DOMAIN documents

\* C11: a create of an excel document in which some sheet has no column
\* ends with 400 and stores no document.
C11_ZeroColumnSheetRejected ==
    [][\A r \in Reqs :
          (/\ Starts(r, "create")
           /\ Get(req'[r].create).type = "excel"
           /\ \E i \in 1..Len(Get(req'[r].create).sheets) :
                 Get(req'[r].create).sheets[i].columns = <<>>)
          => /\ req'[r].pc = "done"
             /\ req'[r].status = ValidationError
             /\ documents' = documents]_vars

\* C12: a get, update, delete or export of an id under which no document
\* is stored ends with 404 at once, whoever the requester is, and changes
\* nothing; and an id whose document has been deleted stays without a
\* document, so every request for it that comes later ends with 404.
C12_AbsentIsNotFound ==
    [][/\ \A r \in Reqs :
             (/\ \E op \in {"get", "update", "delete",
                             "export_word", "export_excel", "export_pdf"} : Starts(r, op)
              /\ req'[r].doc \in DocIds \ DOMAIN documents)
             => /\ req'[r].pc = "done"
                /\ req'[r].status = NotFoundError
                /\ documents' = documents
       /\ \A d \in DocIds : Deleted(d) => Deleted(d)']_vars

C12_Witness ==
    \E r \in Reqs :
        /\ req[r].pc = "done"
        /\ req[r].op = "export_pdf"
        /\ req[r].status = NotFoundError
        /\ Deleted(req[r].doc)

\* C13: a list request ends with 200 and gives exactly the stored documents
\* whose owner is the requester, each once and as it is stored (none without
\* owner, none of another user), those updated last first; a requester
\* without user id gets the empty sequence.
C13_ListOwnedNewestFirst ==
    [][\A r \in Reqs :
          Starts(r, "list") =>
              LET user == req'[r].user
                  listed == Get(req'[r].body) IN
              /\ req'[r].pc = "done"
              /\ req'[r].status = StatusOK
              /\ {listed[i].id : i \in DOMAIN listed} =
                     {d \in DOMAIN documents :
                         user \in Users /\ documents[d].user_id = user}
              /\ \A i \in DOMAIN listed :
                     listed[i] = to_response(listed[i].id, documents[listed[i].id])
              /\ \A i, j \in DOMAIN listed :
                     i < j => /\ listed[i].id # listed[j].id
                              /\ listed[i].updated_at >= listed[j].updated_at
              /\ user \notin Users => listed = <<>>]_vars

\* A list of two documents in which the document created first comes first
\* (an update made it the newer one), with a third document left out.
C13_Witness ==
    \E r \in Reqs :
        /\ Succeeded(r, "list")
        /\ Len(Get(req[r].body)) = 2
        /\ Get(req[r].body)[1].id = 1
        /\ Cardinality(DOMAIN documents) = 3

\* C14: with requests applied one after another, an update that has ended
\* with 200 has replaced exactly the fields its body supplies: the stored
\* document (what a following get returns) has the supplied title, stripped,
\* the supplied sections and the supplied sheets, and every other field of
\* title, sections, sheets and sources as the update found it.
C14_UpdateReplacesSupplied ==
    \A r \in Reqs :
        (Succeeded(r, "update") /\ req[r].doc \in DOMAIN documents) =>
            LET u == Get(req[r].update)
                before == Get(req[r].loaded)
                stored == to_response(req[r].doc, documents[req[r].doc]) IN
            /\ stored.title =
                   IF IsSome(u.title) THEN Strip(Get(u.title)) ELSE before.title
            /\ stored.sections =
                   IF IsSome(u.sections) THEN Get(u.sections)
                   ELSE before.content.sections
            /\ stored.sheets =
                   IF IsSome(u.sheets) THEN Get(u.sheets) ELSE before.content.sheets
            /\ stored.sources = before.content.sources

\* C15: the documents and the versions change only in the step in which a
\* request ends with 200 (its commit): every other step of a request, and so
\* every step of a create, update or delete that ends with an error
\* response, leaves the set of stored documents and each document's title,
\* content, current_version and updated_at as they were.
C15_ErrorLeavesStoreUnchanged ==
    [][\A r \in Reqs :
          (/\ req'[r] # req[r]
           /\ ~(req'[r].pc = "done" /\ req'[r].status = StatusOK))
          => /\ documents' = documents
             /\ versions' = versions]_vars

\* An update whose flush found its row deleted and ended with 500.
C15_Witness ==
    \E r \in Reqs :
        /\ req[r].pc = "done"
        /\ req[r].op = "update"
        /\ req[r].status = InternalError
        /\ IsSome(req[r].assigned)

\* The export handlers and the format each gives.
ExportOps == {<<"export_word", "word">>, <<"export_excel", "excel">>,
              <<"export_pdf", "pdf">>}

\* C17: an export of a stored document ends at once, and it ends with 400
\* exactly when the format asked for is word or excel and is not the
\* document's kind (the exporter is then not run: its ValueError would give
\* 500); a pdf export never ends with 400.
C17_KindMismatchIs400 ==
    [][\A r \in Reqs : \A e \in ExportOps :
          (Starts(r, e[1]) /\ req'[r].doc \in DOMAIN documents) =>
              /\ req'[r].pc = "done"
              /\ req'[r].status = ValidationError
                    <=> (e[2] # "pdf" /\ documents[req'[r].doc].type # e[2])]_vars

\* A word export of an excel document that ended with 400.
C17_Witness ==
    \E r \in Reqs :
        /\ req[r].pc = "done"
        /\ req[r].op = "export_word"
        /\ req[r].doc \in DOMAIN documents
        /\ documents[req[r].doc].type = "excel"
        /\ req[r].status = ValidationError

\* C18: a pdf export of a stored document, word or excel, ends with 200.
C18_PdfExportSucceeds ==
    [][\A r \in Reqs :
          (Starts(r, "export_pdf") /\ req'[r].doc \in DOMAIN documents) =>
              /\ req'[r].pc = "done"
              /\ req'[r].status = StatusOK]_vars

\* The header carries a bearer token that the auth service refuses.
RefusedToken(h) ==
    /\ IsSome(h)
    /\ Get(h).scheme = "Bearer"
    /\ Get(h).token # ""
    /\ verify_token(Get(h).token) = NoUser

\* C19: a request without Authorization header is anonymous; a request
\* whose bearer token is refused is anonymous to get and list, and its delete
\* of a stored document ends with 401.
C19_RefusedTokenIs401OnDelete ==
    [][\A r \in Reqs : \A h \in Headers :
          LET user == get_current_user(h) IN
          /\ ~IsSome(h) => Anonymous(user)
          /\ RefusedToken(h) =>
                /\ Anonymous(user)
                /\ (/\ Starts(r, "delete")
                    /\ req'[r].user = user
                    /\ req'[r].doc \in DOMAIN documents)
                   => /\ req'[r].pc = "done"
                      /\ req'[r].status = AuthError]_vars

\* The completion gave an empty or malformed result: no text, a text that
\* is not JSON, or JSON that is not an object with the fields
\* document_type and topic and, where it has sections, a list of them.
Malformed(llm) ==
    /\ ~llm.raised
    /\ \/ ~IsSome(llm.content)
       \/ ~Get(llm.content).valid
       \/ Get(llm.content).value.kind # "dict"
       \/ ~IsSome(Get(llm.content).value.fields.document_type)
       \/ ~IsSome(Get(llm.content).value.fields.topic)
       \/ /\ IsSome(Get(llm.content).value.fields.sections)
          /\ ~Get(Get(llm.content).value.fields.sections).islist

\* The section of the fallback document.
NotVerifiedSection == "the data could not be verified"

\* C20: a parse-intent request with a prompt of 10 characters or more to
\* which the completion gives an empty or malformed result ends with 200,
\* and its response has exactly one section, the one saying that the data
\* could not be verified.
C20_MalformedGivesFallback ==
    [][\A r \in Reqs :
          (/\ Starts(r, "parse_intent")
           /\ Len(Strip(Get(req'[r].intent).prompt)) >= MinPromptLen
           /\ Malformed(Get(req'[r].intent).llm))
          => /\ req'[r].pc = "done"
             /\ req'[r].status = StatusOK
             /\ Get(req'[r].body).sections = <<NotVerifiedSection>>]_vars

\* The words that, by the claim, mark a prompt as a request for data.
DataWords == DATA_KEYWORDS \cup {<<"s", "h", "e", "e", "t">>}

\* C21: a parse-intent request asks the web search for 10 results exactly
\* when its prompt contains, in any letter case, one of the words excel,
\* spreadsheet, list, table, data and sheet, and for 5 results otherwise.
C21_DataPromptsGetTen ==
    \A r \in Reqs :
        (/\ req[r].pc = "done"
         /\ req[r].op = "parse_intent"
         /\ req[r].sent.searches # <<>>)
        => LET prompt == Strip(Get(req[r].intent).prompt) IN
           req[r].sent.searches =
               <<IF \E w \in DataWords : Contains(Lower(prompt), w)
                 THEN 10 ELSE 5>>

\* C22: an endpoint function wrapped by handle_errors that ends with an
\* exception gives a response whose body is {detail: <text>} and whose
\* status is that of the exception's class: 400 for ValidationError, 401
\* for AuthError, 403 for ForbiddenError, 404 for NotFoundError, 409 for
\* ConflictError and 503 for ServiceError, the detail being the error's
\* message; an HTTPException goes out with its own status and detail; any
\* other exception gives 500 with the detail "An unexpected error
\* occurred", whatever its text.
C22_ErrorsHaveStatusOfType ==
    \A r \in Reqs :
        (req[r].pc = "done" /\ req[r].op = "handle_errors") =>
            LET error == Get(req[r].raised)
                StatusOf == [ValidationError |-> 400, AuthError |-> 401,
                             ForbiddenError |-> 403, NotFoundError |-> 404,
                             ConflictError |-> 409, ServiceError |-> 503] IN
            /\ IsSome(req[r].body)
            /\ DOMAIN Get(req[r].body) = {"detail"}
            /\ error.class \in DOMAIN StatusOf =>
                  /\ req[r].status = StatusOf[error.class]
                  /\ Get(req[r].body).detail = error.message
            /\ error.class = "HTTPException" =>
                  /\ req[r].status = error.status_code
                  /\ Get(req[r].body).detail = error.message
            /\ error.class \notin AppErrorClasses \cup {"HTTPException"} =>
                  /\ req[r].status = 500
                  /\ Get(req[r].body).detail = "An unexpected error occurred"

\* A ConflictError that has been answered with 409 and its message.
C22_Witness ==
    \E r \in Reqs :
        /\ req[r].pc = "done"
        /\ req[r].op = "handle_errors"
        /\ Get(req[r].raised).class = "ConflictError"
        /\ req[r].status = 409
        /\ Get(req[r].body).detail = "connection refused"

\* The chat completion that an AI request was given: its outcome.
Completion(r) ==
    IF req[r].op = "parse_intent" THEN Get(req[r].intent).llm
    ELSE IF req[r].op = "rewrite_section" THEN Get(req[r].rewrite).llm
    ELSE Get(req[r].suggest).llm

\* C23: a parse-intent, rewrite or suggest-columns request asks for at most
\* one chat completion, and when that completion fails or times out (the
\* call raises) the request ends with 503.
C23_LLMFailureIs503NoRetry ==
    \A r \in Reqs :
        (/\ req[r].pc = "done"
         /\ req[r].op \in {"parse_intent", "rewrite_section", "suggest_columns"})
        => /\ Len(req[r].sent.completions) <= 1
           /\ (req[r].sent.completions # <<>> /\ Completion(r).raised)
                 => req[r].status = 503

\* A parse-intent request whose one completion raised, ended with 503.
C23_Witness ==
    \E r \in Reqs :
        /\ req[r].pc = "done"
        /\ req[r].op = "parse_intent"
        /\ Len(req[r].sent.completions) = 1
        /\ Get(req[r].intent).llm.raised
        /\ req[r].status = 503

\* The web search of the request gave nothing: the transport failed, the
\* status was not 2xx, or there were no results.
SearchFailed(http) == http.kind # "ok" \/ http.found = 0

\* C24: a parse-intent request (with a prompt of 10 characters or more)
\* whose web search fails or finds nothing still asks for exactly one chat
\* completion, with the prompt that says that no search results are
\* available, and its response is the one that the completion alone
\* decides: 503 only when the completion raises or gives what the handler
\* cannot use, and otherwise 200; the same prompt and completion give the
\* same response whichever way the search failed.
C24_SearchFailureNeverFails ==
    \A r \in Reqs :
        (/\ req[r].pc = "done"
         /\ req[r].op = "parse_intent"
         /\ Len(Strip(Get(req[r].intent).prompt)) >= MinPromptLen
         /\ SearchFailed(Get(req[r].intent).http))
        => LET llm == Get(req[r].intent).llm
               parsed == parse_json(generate(llm.content))
               unusable == \/ llm.raised
                           \/ parsed.kind # "dict"
                           \/ /\ IsSome(parsed.fields.sections)
                              /\ ~Get(parsed.fields.sections).islist IN
           /\ Len(req[r].sent.searches) = 1
           /\ req[r].sent.completions =
                  <<[instruction |-> "no_search_results", context |-> 0]>>
           /\ req[r].status = IF unusable THEN 503 ELSE 200
           /\ \A http \in HttpOutcomes :
                 SearchFailed(http) =>
                     LET other == IntentOutcome(Get(req[r].intent).prompt, http, llm) IN
                     other.status = req[r].status /\ other.body = req[r].body

\* A parse-intent request whose search timed out or was refused and that
\* ended with 200 after its one completion.
C24_Witness ==
    \E r \in Reqs :
        /\ Succeeded(r, "parse_intent")
        /\ Get(req[r].intent).http.kind = "error"
        /\ Len(req[r].sent.completions) = 1

\* The cells written in a row of a worksheet.
Written(row) == {i \in DOMAIN row : IsSome(row[i])}

\* C25: in the file of an excel export every data row has exactly one cell
\* per declared column, in the columns' order: the cell of a column holds
\* the value the row has under the column's id, or is an explicit empty
\* cell when the row has none; keys of the row that are no column id leave
\* no cell.  So every row has as many cells as the sheet has columns.
C25_RowHasCellPerColumn ==
    \A r \in Reqs :
        Succeeded(r, "export_excel") =>
            LET file == Get(req[r].body) IN
            \A s \in DOMAIN file.workbook :
                LET columns == file.sheets[s].columns
                    rows == file.sheets[s].rows IN
                \A k \in DOMAIN rows :
                    LET row == file.workbook[s].rows[k] IN
                    /\ Cardinality(Written(row)) = Len(columns)
                    /\ \A i \in DOMAIN columns :
                          row[i] = Some(cells_get(rows[k].cells, columns[i]))

\* C26: a response that carries sections or sheets of a stored document
\* that has an owner goes only to a request authenticated as that owner,
\* be it the response of a get, of a list or of a word, excel or pdf
\* export.
C26_ContentOnlyToOwner ==
    \A r \in Reqs :
        /\ (/\ \E op \in {"get", "export_word", "export_excel", "export_pdf"} :
                   Succeeded(r, op)
            /\ req[r].doc \in DOMAIN documents
            /\ documents[req[r].doc].user_id # None)
           => get_user_id(req[r].user) = documents[req[r].doc].user_id
        /\ Succeeded(r, "list") =>
              \A i \in DOMAIN Get(req[r].body) :
                  LET d == Get(req[r].body)[i].id IN
                  (d \in DOMAIN documents /\ documents[d].user_id # None)
                  => get_user_id(req[r].user) = documents[d].user_id

\* C27: while a document is stored, its id, type, owner and created_at stay
\* as create set them (an update changes nothing but title, content,
\* updated_at and current_version), and create sets the owner to the
\* requester's user id when the requester is authenticated with a UUID id
\* and to none otherwise: a document created without owner never gets one.
C27_IdentityFieldsFixed ==
    [][/\ \A d \in DOMAIN documents \cap DOMAIN documents' :
             /\ documents'[d].type = documents[d].type
             /\ documents'[d].user_id = documents[d].user_id
             /\ documents'[d].created_at = documents[d].created_at
       /\ \A d \in DOMAIN documents' \ DOMAIN documents :
             \E r \in Reqs :
                 /\ Starts(r, "create")
                 /\ req'[r].doc = d
                 /\ documents'[d].type = Get(req'[r].create).type
                 /\ documents'[d].user_id =
                        IF req'[r].user \in Users THEN req'[r].user ELSE None]_vars

\* A document created without owner, still without owner and with its
\* first created_at after a successful update.
C27_Witness ==
    \E r \in Reqs : \E d \in DOMAIN documents :
        /\ Succeeded(r, "update")
        /\ req[r].doc = d
        /\ documents[d].user_id = None
        /\ documents[d].created_at = 1
        /\ documents[d].updated_at > 1

\* C28: a reset-password request with a well-formed address ends with 200
\* and one fixed body, whether or not the address has an account and
\* whether or not the call of the auth provider fails.
C28_ResetAlwaysSameResponse ==
    \A r \in Reqs :
        (req[r].pc = "done" /\ req[r].op = "reset_password") =>
            /\ req[r].status = 200
            /\ req[r].body =
                   Some([success |-> TRUE,
                         message |-> "If an account exists, a reset link will be sent."])

\* A request for an address without account, on which the provider's call
\* raised, answered with 200.
C28_Witness ==
    \E r \in Reqs :
        /\ Succeeded(r, "reset_password")
        /\ Get(req[r].reset).email \notin Accounts
        /\ Get(req[r].reset).provider_raises

====
